---- MODULE Spec2Model ----
(***************************************************************************)
(* A model of hnarchive.py: the fetch oracle (get_item / get_latest_id),   *)
(* the merge-upsert store (insert_item / insert_items / commit), the       *)
(* command functions get, update, update_items and livestream, each        *)
(* wrapped by ctrlc_commit.                                                *)
(*                                                                         *)
(* Conventions.  A nullable Python / SQL value is a set with at most one   *)
(* element: {} is None / NULL, {v} is the value v.  A JSON object is a     *)
(* function from its keys to their values, so "k in data" is               *)
(* k \in DOMAIN data.  A table is a function from ids to at most one row.  *)
(***************************************************************************)
EXTENDS Integers, Sequences, FiniteSets, TLC

(* ------------------------------- bounds -------------------------------- *)

\* Item ids of the modelled feed are 1..MaxId.
MaxId == 2
\* The clock (time.time()) runs over ClockBase .. ClockBase + MaxClock and then stands still.
MaxClock == 1
\* Commit periods tried are 1..MaxK.
MaxK == 2
\* The tailer's consecutive absences are followed up to this count.
MaxMissed == 10
\* Upserts applied to one row in the store-only specification.
MaxUpserts == 2

(* -------------------------- program constants -------------------------- *)

\* livestream: `if missed_loops % 5 == 0`
ProbeEvery == 5
\* livestream: `if latest > (id+50)`
DeadMargin == 50

Ids == 1..MaxId
NULL == {}

(* ------------------------------ JSON items ----------------------------- *)

\* Keys of an item body that insert_item reads besides id, type and time.
OptKeys == {"by", "text", "poll", "url", "score", "title", "descendants",
            "deleted", "dead", "parent"}

\* Two editions of every field's value, as the feed may serve them.
Val(k, e) ==
    CASE k = "type"        -> IF e = 1 THEN "story" ELSE "comment"
      [] k = "time"        -> IF e = 1 THEN 100 ELSE 101
      [] k = "by"          -> IF e = 1 THEN "alice" ELSE "bob"
      [] k = "text"        -> IF e = 1 THEN "text1" ELSE "text2"
      [] k = "poll"        -> IF e = 1 THEN 7 ELSE 12
      [] k = "url"         -> IF e = 1 THEN "url1" ELSE "url2"
      [] k = "score"       -> IF e = 1 THEN 10 ELSE 11
      [] k = "title"       -> IF e = 1 THEN "title1" ELSE "title2"
      [] k = "descendants" -> IF e = 1 THEN 7 ELSE 8
      [] k = "deleted"     -> (e = 1)
      [] k = "dead"        -> (e = 1)
      [] k = "parent"      -> IF e = 1 THEN 3 ELSE 40

\* The body {"id": id, "type": .., "time": .., <keys>: ..}: type and time of
\* edition r, the optional keys of edition e.
Body(id, r, keys, e) ==
    [k \in {"id", "type", "time"} \cup keys |->
        IF k = "id" THEN id
        ELSE IF k \in {"type", "time"} THEN Val(k, r)
        ELSE Val(k, e)]

\* A body without the "time" key, such as {"id": 78692, "type": "story"}.
Stub(id) == [id |-> id, type |-> "story"]

(* --------------------------- API: get_item ----------------------------- *)

\* get_item, given the response's JSON: None for null and for a body that
\* lacks "time".
get_item(json) ==
    IF json = NULL THEN NULL
    ELSE IF \E d \in json : "time" \notin DOMAIN d THEN NULL
    ELSE json

(* ------------------------------ API: get ------------------------------- *)

\* get_item: `get(url, retries=8)`
ItemRetries == 8
\* get_latest_id: `get(url)`, that is the default `retries=1`
ProbeRetries == 1

\* What one pass of the `try` in get may do: "ok", session.get and
\* raise_for_status return; "caught", one of HTTP429, HTTP5XX,
\* ConnectionError, ReadTimeout is raised; "other", anything else is raised
\* (any other 4XX).
Outcomes == {"ok", "caught", "other"}

\* The network as one call of get meets it: the outcome of the first,
\* second, ... attempt, one more than any budget in use can ask for.
Scripts == [1 .. (ItemRetries + 1) -> Outcomes]

\* The `except (...)` clause of get.
\* (a slip: `except Exception`)
CaughtAny(o) == o # "ok"
Caught(o) == o = "caught"

\* `while retries > 0`
\* (a slip: `while retries >= 0`)
HasRetriesInclusive(retries) == retries >= 0
HasRetries(retries) == retries > 0

\* The loop of get from its test on, after `attempts` passes and `sleeps`
\* calls of time.sleep(bo.next()): what get returns or raises in the end.
\* The response is told by the number of the attempt that brought it.
RECURSIVE GetLoop(_, _, _, _)
GetLoop(script, retries, attempts, sleeps) ==
    IF ~HasRetries(retries)
    THEN [raised |-> {"RuntimeError"}, response |-> NULL,
          attempts |-> attempts, sleeps |-> sleeps, retries |-> retries]
    ELSE LET o == script[attempts + 1]
         IN  IF o = "ok"
             THEN [raised |-> NULL, response |-> {attempts + 1},
                   attempts |-> attempts + 1, sleeps |-> sleeps, retries |-> retries]
             ELSE IF Caught(o)
             THEN GetLoop(script, retries - 1, attempts + 1, sleeps + 1)
             ELSE [raised |-> {"HTTPError"}, response |-> NULL,
                   attempts |-> attempts + 1, sleeps |-> sleeps, retries |-> retries]

\* get(url, retries)
get(script, retries) == GetLoop(script, retries, 0, 0)

\* get_item(id) over a network that follows `script` and serves `json`:
\* what get did, and the value returned if it did not raise.
GetItem(script, json) ==
    LET r == get(script, ItemRetries)
    IN  [net |-> r, value |-> IF r.raised = NULL THEN get_item(json) ELSE NULL]

\* get_latest_id() over a network that follows `script` and serves `maxitem`.
GetLatestId(script, maxitem) ==
    LET r == get(script, ProbeRetries)
    IN  [net |-> r, value |-> IF r.raised = NULL THEN {maxitem} ELSE NULL]

(* ------------------------- DATABASE: the table ------------------------- *)

EmptyTable == [i \in Ids |-> NULL]

select_item(table, id) == table[id]

Stored(table) == {i \in Ids : table[i] # NULL}

Max(S) == CHOOSE m \in S : \A n \in S : n <= m

\* SELECT id FROM items ORDER BY id DESC LIMIT 1
select_latest_id(table) ==
    IF Stored(table) = {} THEN NULL ELSE {Max(Stored(table))}

\* Python's `x or 1` for an optional integer: None and 0 are both falsy.
OrOne(x) == IF x = NULL \/ x = {0} THEN 1 ELSE CHOOSE v \in x : TRUE

(* -------------------------- column conversions ------------------------- *)

Digit(d) ==
    CASE d = 0 -> "0" [] d = 1 -> "1" [] d = 2 -> "2" [] d = 3 -> "3"
      [] d = 4 -> "4" [] d = 5 -> "5" [] d = 6 -> "6" [] d = 7 -> "7"
      [] d = 8 -> "8" [] d = 9 -> "9"

RECURSIVE DecStr(_)
DecStr(n) == IF n < 10 THEN Digit(n) ELSE DecStr(n \div 10) \o Digit(n % 10)

\* A TEXT column given an integer stores its decimal text (parent, poll).
TextCol(x) == {DecStr(v) : v \in x}

\* An INT column given a Python bool stores 1 or 0 (deleted, dead).
BoolCol(b) == IF b THEN 1 ELSE 0

\* int_or_none: None stays None, an integer is its own int().
int_or_none(x) == IF x = NULL THEN NULL ELSE {v : v \in x}

\* data.get(k, default) for a nullable result.
Get(data, k, default) == IF k \in DOMAIN data THEN {data[k]} ELSE default

\* bool(data.get(k, False))
GetBool(data, k) == IF k \in DOMAIN data THEN data[k] ELSE FALSE

(* ------------------------ DATABASE: insert_item ------------------------ *)

\* The row INSERTed when select_item found nothing.
NewRow(data, retrieved) ==
    [id          |-> data.id,
     deleted     |-> BoolCol(GetBool(data, "deleted")),
     type        |-> data.type,
     author      |-> Get(data, "by", NULL),
     time        |-> data.time,
     text        |-> Get(data, "text", NULL),
     dead        |-> BoolCol(GetBool(data, "dead")),
     parent      |-> TextCol(Get(data, "parent", NULL)),
     poll        |-> TextCol(Get(data, "poll", NULL)),
     url         |-> Get(data, "url", NULL),
     score       |-> int_or_none(Get(data, "score", NULL)),
     title       |-> Get(data, "title", NULL),
     descendants |-> int_or_none(Get(data, "descendants", NULL)),
     retrieved   |-> retrieved]

\* The poll column of an UPDATEd row: the incoming integer as text, or the
\* text already stored.
MergedPoll(data, existing) ==
    IF "poll" \in DOMAIN data THEN TextCol({data.poll}) ELSE existing.poll

\* The time column of an UPDATEd row.
\* (a slip: the time of the first fetch is kept)
MergedTimeKeepFirst(data, existing) == existing.time
MergedTime(data, existing) == data.time

\* A retained column of an UPDATEd row: data.get(k, existing[col]).
\* (a slip: data.get(k, None), as in the INSERT branch)
RetainedDropOld(data, k, old) == Get(data, k, NULL)
Retained(data, k, old) == Get(data, k, old)

\* The descendants column of an UPDATEd row: data.get('descendants', None).
\* (a slip: data.get('descendants', existing['descendants']), as for score)
MergedDescendantsKept(data, existing) == Get(data, "descendants", existing.descendants)
MergedDescendants(data, existing) == Get(data, "descendants", NULL)

\* The retrieved column of an UPDATEd row: `'retrieved': retrieved`.
\* (a slip: the UPDATE leaves the column as it was)
MergedRetrievedKept(existing, retrieved) == existing.retrieved
MergedRetrieved(existing, retrieved) == retrieved

\* The row UPDATEd over `existing`.
MergedRow(data, existing, retrieved) ==
    [id          |-> data.id,
     deleted     |-> BoolCol(GetBool(data, "deleted")),
     type        |-> data.type,
     author      |-> Retained(data, "by", existing.author),
     time        |-> MergedTime(data, existing),
     text        |-> Retained(data, "text", existing.text),
     dead        |-> BoolCol(GetBool(data, "dead")),
     parent      |-> TextCol(Get(data, "parent", NULL)),
     poll        |-> MergedPoll(data, existing),
     url         |-> Retained(data, "url", existing.url),
     score       |-> int_or_none(Retained(data, "score", existing.score)),
     title       |-> Retained(data, "title", existing.title),
     descendants |-> int_or_none(MergedDescendants(data, existing)),
     retrieved   |-> MergedRetrieved(existing, retrieved)]

\* `'is_new': existing is None`
\* (a slip: `existing is not None`)
IsNewInverted(existing) == existing # NULL
IsNew(existing) == existing = NULL

\* `INSERT INTO items ...` with the row's bindings.
InsertInto(table, row) == [table EXCEPT ![row.id] = {row}]

\* `UPDATE items SET ... WHERE id == ?` with the row's bindings.
\* (a slip: an item the feed reports deleted loses its row)
UpdateItemsPurging(table, row) ==
    [table EXCEPT ![row.id] = IF row.deleted = 1 THEN NULL ELSE {row}]
UpdateItems(table, row) == [table EXCEPT ![row.id] = {row}]

\* insert_item(data) at clock value `retrieved`: the table afterwards and
\* the is_new flag of the returned dict.
insert_item(table, data, retrieved) ==
    LET existing == select_item(table, data.id)
    IN  [table  |-> IF existing = NULL
                    THEN InsertInto(table, NewRow(data, retrieved))
                    ELSE UpdateItems(table,
                             MergedRow(data, CHOOSE r \in existing : TRUE, retrieved)),
         is_new |-> IsNew(existing)]

(* ------------------------------ the state ------------------------------ *)

VARIABLES
    items,         \* the table as the connection sees it (uncommitted rows included)
    durable,       \* the table as of the last sql.commit()
    upstream,      \* the feed: id -> the JSON the item endpoint answers (NULL: null)
    latest,        \* the last value the maxitem endpoint answered
    clock,         \* int(time.time())
    cmd,           \* the subcommand: "get", "update", "update_items", "livestream", "upsert"
    args,          \* its arguments: lower, upper, commit_period, days, only_mature
    pc,            \* where the command function is
    todo,          \* the ids the item generator has not fetched yet
    ticker,        \* insert_items: ticker
    cursor,        \* livestream: id
    missed_loops,  \* livestream: missed_loops
    exits,         \* the exit statuses of the runs so far, in order
    \* ---- observations of the run, read by the properties only ----
    items0,        \* the table when the run started
    ids,           \* the id sequence handed to get_items in this run / iteration
    fetched,       \* the ids fetched by this run / iteration, in order
    newIds,        \* the ids whose upsert reported is_new in this run
    consumed,      \* items consumed by the current insert_items call
    commits,       \* commits performed by the current insert_items call
    pending,       \* rows upserted since the last commit
    ctrlc,         \* KeyboardInterrupt was raised in this run
    probe,         \* livestream: what the last iteration's get_latest_id answered
    run1,          \* what the first run crawled, reported new and left in the table
    obs,           \* store-only specification: what the last upsert saw
    yielded,       \* the items the item generator has yielded to insert_items, in order
    jobs,          \* get_items_multithreaded: the pool's jobs, in the order they were added
    raised,        \* the exception other than KeyboardInterrupt raised in this run
    call           \* fetch-only specification: the call of get_item / get_latest_id

vars == <<items, durable, upstream, latest, clock, cmd, args, pc, todo, ticker,
          cursor, missed_loops, exits, items0, ids, fetched, newIds, consumed,
          commits, pending, ctrlc, probe, run1, obs, yielded, jobs, raised, call>>

\* The clock starts 14 days and 100 seconds after the epoch of the old items.
ClockBase == 14 * 86400 + 100

Clocks == ClockBase .. (ClockBase + MaxClock)

\* The values time.time() may show next: it does not go back.
Nows == {t \in Clocks : clock <= t /\ t <= clock + 1}

(* ------------------------- the feed and the store ---------------------- *)

\* What the item endpoint may answer for id: null, a body without "time",
\* or a current item.
Answers(id) == {NULL, {Stub(id)}, {Body(id, 2, {"by", "score", "descendants"}, 2)}}

Feeds == {f \in [Ids -> UNION {Answers(i) : i \in Ids}] : \A i \in Ids : f[i] \in Answers(i)}

\* A row archived by an earlier run, from a body that carried every key.
OldRow(id) == NewRow(Body(id, 1, OptKeys, 1), ClockBase)

\* The tables an earlier run may have left (all of it committed).
Tables == {[i \in Ids |-> IF i \in S THEN {OldRow(i)} ELSE NULL] : S \in SUBSET Ids}

\* The JSON of the item endpoint for any id: ids the feed does not hold answer null.
Fetch(id) == IF id \in Ids THEN upstream[id] ELSE NULL

\* range(lower, upper+1)
RECURSIVE Range(_, _)
Range(lower, upper) ==
    IF lower > upper THEN <<>> ELSE <<lower>> \o Range(lower + 1, upper)

Last(s) == s[Len(s)]

NoRun == [ids |-> <<>>, new |-> {}, table |-> EmptyTable, done |-> FALSE]
NoObs == [n |-> 0, prev |-> NULL, data |-> NULL, first |-> NULL, is_new |-> FALSE]
NoCall == [done |-> FALSE, fn |-> "", script |-> <<>>, out |-> NULL]

\* The ids of S in ascending order.
RECURSIVE Ascending(_)
Ascending(S) ==
    IF S = {} THEN <<>>
    ELSE LET m == CHOOSE x \in S : \A y \in S : x <= y
         IN  <<m>> \o Ascending(S \ {m})

\* Python truthiness of an optional integer argument (`args.upper or ...`).
Truthy(x) == x # NULL /\ x # {0}

(* ------------------------- API: get_latest_id -------------------------- *)

\* What the maxitem endpoint may answer now: the feed's highest id does not
\* go back.  The tailer is followed against a feed that is at least
\* DeadMargin ids ahead, the bulk commands against a feed of MaxId items.
MaxItemAnswers ==
    IF cmd = "livestream"
    THEN {l \in (DeadMargin + 1) .. (DeadMargin + MaxId + 2) : l >= latest}
    ELSE {l \in 0 .. MaxId : l >= latest}

(* --------------------------- API: get_items ---------------------------- *)

\* `if threads and threads > 1`
\* (a slip: `threads >= 1`)
MultithreadedFromOne(threads) == \E t \in threads : t # 0 /\ t >= 1
Multithreaded(threads) == \E t \in threads : t # 0 /\ t > 1

\* result_generator has handed out every job of the pool (no job, no pool).
PoolDrained == \A i \in DOMAIN jobs : jobs[i].state = "taken"

(* ---------------------- DATABASE: insert_items ------------------------- *)

\* commit()
Commit == durable' = items'

\* `if ticker == 0: commit()` inside the loop of insert_items.
\* (a slip: `if ticker == 1`)
PeriodicCommitAtOne(t) == t = 1
PeriodicCommitDue(t) == t = 0

\* One pass of the loop body of insert_items over `data`, at clock `now`.
InsertOne(data, now) ==
    LET r == insert_item(items, data, now)
        t == (ticker + 1) % args.commit_period
    IN  /\ items' = r.table
        /\ clock' = now
        /\ ticker' = t
        /\ consumed' = consumed + 1
        /\ yielded' = Append(yielded, data)
        /\ newIds' = IF r.is_new THEN newIds \cup {data.id} ELSE newIds
        /\ IF PeriodicCommitDue(t)
           THEN Commit /\ commits' = commits + 1 /\ pending' = 0
           ELSE /\ durable' = durable
                /\ commits' = commits
                /\ pending' = pending + 1

\* The generator skipped an absent id: the consumer saw nothing.
InsertNone ==
    UNCHANGED <<items, durable, clock, ticker, consumed, newIds, commits, pending,
                yielded>>

\* get_items has made its generator and insert_items is entered: `ticker = 0`.
EnterInsertItems ==
    /\ ticker' = 0
    /\ consumed' = 0
    /\ commits' = 0
    /\ yielded' = <<>>
    /\ jobs' = <<>>

(* ------------------------------ get ------------------------------------ *)

\* `upper = args.upper or get_latest_id()`
ResolveUpper(l) == IF Truthy(args.upper) THEN CHOOSE b \in args.upper : TRUE ELSE l

\* get_argparse up to the call of insert_items.
GetStart ==
    /\ pc = "start" /\ cmd = "get"
    /\ \E l \in (IF Truthy(args.upper) THEN {latest} ELSE MaxItemAnswers) :
          /\ latest' = l
          /\ ids' = Range(args.lower, ResolveUpper(l))
    /\ todo' = ids'
    /\ fetched' = <<>>
    /\ EnterInsertItems
    /\ pc' = "crawl"
    /\ UNCHANGED <<items, durable, upstream, clock, cmd, args, cursor,
                   missed_loops, exits, items0, newIds, pending, ctrlc, probe,
                   run1, obs, raised, call>>

\* get_items_singlethreaded fetches the next id; insert_items consumes the
\* item, if there is one.
CrawlStep ==
    /\ pc = "crawl" /\ todo # <<>>
    /\ ~Multithreaded(args.threads)
    /\ LET id == Head(todo)
           item == get_item(Fetch(id))
       IN  /\ todo' = Tail(todo)
           /\ fetched' = Append(fetched, id)
           /\ IF item = NULL
              THEN InsertNone
              ELSE \E now \in Nows : InsertOne(CHOOSE d \in item : TRUE, now)
    /\ UNCHANGED <<upstream, latest, cmd, args, pc, cursor, missed_loops, exits,
                   items0, ids, ctrlc, probe, run1, obs, jobs, raised, call>>

\* The final commit() of insert_items.
FinalCommit == Commit /\ commits' = commits + 1 /\ pending' = 0

\* The generator is exhausted: insert_items commits and returns; get and
\* update_items return 0, update goes round its `while True`.
CrawlEnd ==
    /\ pc = "crawl" /\ todo = <<>>
    /\ PoolDrained
    /\ items' = items
    /\ FinalCommit
    /\ IF cmd = "update"
       THEN pc' = "loop" /\ exits' = exits
       ELSE pc' = "exit" /\ exits' = Append(exits, 0)
    /\ UNCHANGED <<upstream, latest, clock, cmd, args, todo, ticker, cursor,
                   missed_loops, items0, ids, fetched, newIds, consumed, ctrlc,
                   probe, run1, obs, yielded, jobs, raised, call>>

(* ------------------------------ update --------------------------------- *)

\* `lower = select_latest_id() or 1`
\* (a slip: one past the highest stored id)
UpdateLowerNext(table) == OrOne(select_latest_id(table)) + 1
UpdateLower(table) == OrOne(select_latest_id(table))

\* One pass of `while True` in update_argparse up to the call of
\* insert_items, or to the `break`.
UpdateLoop ==
    /\ pc \in {"start", "loop"} /\ cmd = "update"
    /\ \E l \in MaxItemAnswers :
          /\ latest' = l
          /\ IF UpdateLower(items) = l
             THEN /\ pc' = "exit"
                  /\ exits' = Append(exits, 0)
                  /\ UNCHANGED <<items0, ids, todo, fetched, ticker, consumed, commits,
                                 yielded, jobs>>
             ELSE /\ pc' = "crawl"
                  /\ exits' = exits
                  /\ items0' = items
                  /\ ids' = Range(UpdateLower(items), l)
                  /\ todo' = ids'
                  /\ fetched' = <<>>
                  /\ EnterInsertItems
    /\ UNCHANGED <<items, durable, upstream, clock, cmd, args, cursor,
                   missed_loops, newIds, pending, ctrlc, probe, run1, obs,
                   raised, call>>

(* --------------------------- update_items ------------------------------ *)

\* `WHERE retrieved - time <= ? [AND time < ?]`
Selected(row, seconds, then) ==
    /\ row.retrieved - row.time <= seconds
    /\ args.only_mature => row.time < then

\* update_items_argparse up to the call of insert_items, or to the
\* `return 0` for an empty selection.
UpdateItemsStart ==
    /\ pc = "start" /\ cmd = "update_items"
    /\ \E now \in Nows :
          LET seconds == args.days * 86400
              then == now - (86400 * 14)
              sel == {i \in Stored(items) :
                         \A row \in items[i] : Selected(row, seconds, then)}
          IN  /\ clock' = now
              /\ ids' = Ascending(sel)
              /\ IF sel = {}
                 THEN pc' = "exit" /\ exits' = Append(exits, 0)
                 ELSE pc' = "crawl" /\ exits' = exits
    /\ todo' = ids'
    /\ fetched' = <<>>
    /\ EnterInsertItems
    /\ UNCHANGED <<items, durable, upstream, latest, cmd, args, cursor,
                   missed_loops, items0, newIds, pending, ctrlc, probe, run1, obs,
                   raised, call>>

(* ----------------------------- livestream ------------------------------ *)

\* `id = select_latest_id() or 1`
\* (a slip: one past the highest stored id)
TailFirstNext(table) == OrOne(select_latest_id(table)) + 1
TailFirst(table) == OrOne(select_latest_id(table))

\* livestream_argparse calls insert_items(livestream()): the generator runs
\* up to its `while True`.
TailStart ==
    /\ pc = "start" /\ cmd = "livestream"
    /\ cursor' = TailFirst(items)
    /\ missed_loops' = 0
    /\ EnterInsertItems
    /\ pc' = "tail"
    /\ UNCHANGED <<items, durable, upstream, latest, clock, cmd, args, todo,
                   exits, items0, ids, fetched, newIds, pending, ctrlc, probe,
                   run1, obs, raised, call>>

\* `if latest > (id+50)`
\* (a slip: `>=`)
IsDeadAtMargin(l, id) == l >= id + DeadMargin
IsDead(l, id) == l > id + DeadMargin

\* `if missed_loops % 5 == 0`
ProbeDue(missed) == missed % ProbeEvery = 0

\* The ids the tailer examined, in order, a repeated look at the same id
\* noted once.
Examined(id) ==
    IF fetched # <<>> /\ Last(fetched) = id THEN fetched ELSE Append(fetched, id)

\* `id += 1`, after a skip and after an item.
\* (a slip: `id += 2`)
NextIdSkipping(id) == id + 2
NextId(id) == id + 1

\* `missed_loops += 1`
\* (a slip: `missed_loops = 1`)
CountMissOnce(missed) == 1
CountMiss(missed) == missed + 1

\* One pass of `while True` in livestream: the item is absent.
TailAbsent ==
    /\ pc = "tail"
    /\ get_item(Fetch(cursor)) = NULL
    /\ missed_loops < MaxMissed
    /\ fetched' = Examined(cursor)
    /\ missed_loops' = CountMiss(missed_loops)
    /\ IF ProbeDue(missed_loops')
       THEN \E l \in MaxItemAnswers :
               /\ latest' = l
               /\ probe' = {l}
               /\ IF IsDead(l, cursor)
                  THEN cursor' = NextId(cursor) /\ pc' = "tail"
                  ELSE cursor' = cursor /\ pc' = "sleep"
       ELSE /\ latest' = latest
            /\ probe' = NULL
            /\ cursor' = cursor
            /\ pc' = "sleep"
    /\ InsertNone
    /\ UNCHANGED <<upstream, cmd, args, todo, exits, items0, ids, ctrlc, run1, obs,
                   jobs, raised, call>>

\* One pass of `while True` in livestream: the item is there, it is yielded
\* and insert_items consumes it.
TailPresent ==
    /\ pc = "tail"
    /\ get_item(Fetch(cursor)) # NULL
    /\ fetched' = Examined(cursor)
    /\ cursor' = NextId(cursor)
    /\ missed_loops' = 0
    /\ probe' = NULL
    /\ \E now \in Nows : InsertOne(CHOOSE d \in get_item(Fetch(cursor)) : TRUE, now)
    /\ UNCHANGED <<upstream, latest, cmd, args, pc, todo, exits, items0, ids,
                   ctrlc, run1, obs, jobs, raised, call>>

\* `time.sleep(bo.next())` returns.
TailWake ==
    /\ pc = "sleep"
    /\ pc' = "tail"
    /\ \E now \in Nows : clock' = now
    /\ UNCHANGED <<items, durable, upstream, latest, cmd, args, todo, ticker,
                   cursor, missed_loops, exits, items0, ids, fetched, newIds,
                   consumed, commits, pending, ctrlc, probe, run1, obs, yielded,
                   jobs, raised, call>>

(* ----------------------------- ctrlc_commit ---------------------------- *)

\* The handler of ctrlc_commit: `commit(); return 1`.
\* (a slip: `return 1` without commit())
HandlerNoCommit == durable' = durable /\ pending' = pending
HandlerCommit == Commit /\ pending' = 0

\* KeyboardInterrupt is raised somewhere in the decorated command function.
Interrupt ==
    /\ pc \in {"start", "loop", "crawl", "tail", "sleep"}
    /\ cmd # "upsert"
    /\ items' = items
    /\ HandlerCommit
    /\ ctrlc' = TRUE
    /\ exits' = Append(exits, 1)
    /\ pc' = "exit"
    /\ UNCHANGED <<upstream, latest, clock, cmd, args, todo, ticker, cursor,
                   missed_loops, items0, ids, fetched, newIds, consumed,
                   commits, probe, run1, obs, yielded, jobs, raised, call>>

\* `except KeyboardInterrupt` in ctrlc_commit: the exceptions it takes.
\* (a slip: a bare `except:`)
HandledAny(exc) == TRUE
Handled(exc) == exc = "KeyboardInterrupt"

\* The exception exc, raised by a fetch, leaves the generator, insert_items
\* and the command function, and meets ctrlc_commit.
Unwind(exc) ==
    /\ raised' = {exc}
    /\ pc' = "exit"
    /\ items' = items
    /\ IF Handled(exc)
       THEN HandlerCommit /\ exits' = Append(exits, 1)
       ELSE durable' = durable /\ pending' = pending /\ exits' = exits

\* The same command line is run once more: a new process, which sees what
\* was committed.
Rerun ==
    /\ pc = "exit" /\ cmd # "upsert"
    /\ exits = <<0>>
    /\ run1' = [ids |-> ids, new |-> newIds, table |-> items, done |-> Last(exits) = 0]
    /\ items' = durable
    /\ items0' = durable
    /\ pc' = "start"
    /\ todo' = <<>> /\ ids' = <<>> /\ fetched' = <<>> /\ newIds' = {}
    /\ ticker' = 0 /\ consumed' = 0 /\ commits' = 0 /\ pending' = 0
    /\ cursor' = 0 /\ missed_loops' = 0 /\ probe' = NULL /\ ctrlc' = FALSE
    /\ yielded' = <<>> /\ jobs' = <<>>
    /\ UNCHANGED <<durable, upstream, latest, clock, cmd, args, exits, obs,
                   raised, call>>

(* ------------------------- insert_item on its own ---------------------- *)

\* The sets of optional keys a body may carry.
KeySets == {{}} \cup {{k} : k \in OptKeys} \cup {OptKeys}

\* The bodies of item 1 the store is given.
Datas == {Body(1, r, ks, e) : r \in 1..2, ks \in KeySets, e \in 1..2}

\* insert_item(data), called directly.
Upsert ==
    /\ cmd = "upsert"
    /\ obs.n < MaxUpserts
    /\ \E data \in Datas, now \in Nows :
          LET r == insert_item(items, data, now)
          IN  /\ items' = r.table
              /\ clock' = now
              /\ obs' = [n      |-> obs.n + 1,
                         prev   |-> items[data.id],
                         data   |-> {data},
                         first  |-> IF obs.first = NULL THEN {data.time} ELSE obs.first,
                         is_new |-> r.is_new]
    /\ UNCHANGED <<durable, upstream, latest, cmd, args, pc, todo, ticker,
                   cursor, missed_loops, exits, items0, ids, fetched, newIds,
                   consumed, commits, pending, ctrlc, probe, run1, yielded, jobs,
                   raised, call>>

(* ----------------------- fetches that may raise ----------------------- *)

\* The script of k caught failures followed by outcome x for good.
Script(k, x) == [j \in 1 .. (ItemRetries + 1) |-> IF j <= k THEN "caught" ELSE x]

\* The networks the commands are followed against: it answers at once; it
\* answers the second attempt; it fails eight times; it refuses (a 4XX).
NetScripts == {Script(0, "ok"), Script(1, "ok"), Script(ItemRetries, "ok"),
               Script(0, "other")}

\* The exceptions get_item(id) may end in.
ItemRaises(id) ==
    UNION {GetItem(s, Fetch(id)).net.raised : s \in NetScripts}

\* The exceptions get_latest_id() may end in.
ProbeRaises ==
    UNION {GetLatestId(s, latest).net.raised : s \in NetScripts}

\* get_item raises inside get_items_singlethreaded or inside livestream.
FetchRaise ==
    /\ \/ pc = "crawl" /\ todo # <<>> /\ ~Multithreaded(args.threads)
       \/ pc = "tail"
    /\ LET id == IF pc = "crawl" THEN Head(todo) ELSE cursor
       IN  /\ fetched' = (IF pc = "crawl" THEN Append(fetched, id) ELSE Examined(id))
           /\ todo' = (IF pc = "crawl" THEN Tail(todo) ELSE todo)
           /\ \E exc \in ItemRaises(id) : Unwind(exc)
    /\ UNCHANGED <<upstream, latest, clock, cmd, args, ticker, cursor,
                   missed_loops, items0, ids, newIds, consumed, commits, ctrlc,
                   probe, run1, obs, yielded, jobs, call>>

\* get_latest_id raises: in get_argparse (no --upper), in update_argparse,
\* or in livestream after the miss that makes a probe due.
ProbeRaise ==
    /\ \/ pc = "start" /\ cmd = "get" /\ ~Truthy(args.upper)
       \/ pc \in {"start", "loop"} /\ cmd = "update"
       \/ /\ pc = "tail" /\ get_item(Fetch(cursor)) = NULL
          /\ ProbeDue(CountMiss(missed_loops))
    /\ IF pc = "tail"
       THEN fetched' = Examined(cursor) /\ missed_loops' = CountMiss(missed_loops)
       ELSE fetched' = fetched /\ missed_loops' = missed_loops
    /\ \E exc \in ProbeRaises : Unwind(exc)
    /\ UNCHANGED <<upstream, latest, clock, cmd, args, todo, ticker, cursor,
                   items0, ids, newIds, consumed, commits, ctrlc, probe, run1,
                   obs, yielded, jobs, call>>

(* ---------------------- get_items_multithreaded ------------------------ *)

Running == {i \in DOMAIN jobs : jobs[i].state = "running"}

\* The pool takes the next job from job_gen when one of its `threads`
\* threads is free.
JobStart ==
    /\ pc = "crawl" /\ todo # <<>>
    /\ Multithreaded(args.threads)
    /\ \A t \in args.threads : Cardinality(Running) < t
    /\ jobs' = Append(jobs, [id |-> Head(todo), state |-> "running",
                             value |-> NULL, exception |-> NULL])
    /\ todo' = Tail(todo)
    /\ fetched' = Append(fetched, Head(todo))
    /\ UNCHANGED <<items, durable, upstream, latest, clock, cmd, args, pc,
                   ticker, cursor, missed_loops, exits, items0, ids, newIds,
                   consumed, commits, pending, ctrlc, probe, run1, obs, yielded,
                   raised, call>>

\* A thread of the pool comes back from get_item: the job holds the value
\* or the exception.
JobFinish ==
    /\ pc = "crawl"
    /\ \E i \in Running, s \in NetScripts :
          LET r == GetItem(s, Fetch(jobs[i].id))
          IN  jobs' = [jobs EXCEPT ![i] = [@ EXCEPT !.state = "done",
                                                   !.value = r.value,
                                                   !.exception = r.net.raised]]
    /\ UNCHANGED <<items, durable, upstream, latest, clock, cmd, args, pc, todo,
                   ticker, cursor, missed_loops, exits, items0, ids, fetched,
                   newIds, consumed, commits, pending, ctrlc, probe, run1, obs,
                   yielded, raised, call>>

\* `if job.exception: raise job.exception`
\* (a slip: the exception is dropped and the job passed over)
JobRaisesNever(job) == FALSE
JobRaises(job) == job.exception # NULL

\* result_generator hands out a finished job (in an order that is the
\* pool's own) and the loop body of get_items_multithreaded runs on it;
\* insert_items consumes what it yields.
PoolYield ==
    /\ pc = "crawl"
    /\ \E i \in DOMAIN jobs :
          /\ jobs[i].state = "done"
          /\ jobs' = [jobs EXCEPT ![i].state = "taken"]
          /\ IF JobRaises(jobs[i])
             THEN /\ \E exc \in jobs[i].exception : Unwind(exc)
                  /\ UNCHANGED <<clock, ticker, consumed, newIds, commits, yielded>>
             ELSE /\ IF jobs[i].value = NULL
                     THEN InsertNone
                     ELSE \E now \in Nows :
                              InsertOne(CHOOSE d \in jobs[i].value : TRUE, now)
                  /\ UNCHANGED <<pc, exits, raised>>
    /\ UNCHANGED <<upstream, latest, cmd, args, todo, cursor, missed_loops,
                   items0, ids, fetched, ctrlc, probe, run1, obs, call>>

(* ---------------------- get_item / get_latest_id ----------------------- *)

\* get_item(1), called directly.
CallGetItem ==
    /\ cmd = "fetch" /\ ~call.done
    /\ call' = [call EXCEPT !.done = TRUE, !.fn = "get_item",
                            !.out = GetItem(call.script, Fetch(1))]
    /\ UNCHANGED <<items, durable, upstream, latest, clock, cmd, args, pc, todo,
                   ticker, cursor, missed_loops, exits, items0, ids, fetched,
                   newIds, consumed, commits, pending, ctrlc, probe, run1, obs,
                   yielded, jobs, raised>>

\* get_latest_id(), called directly.
CallGetLatestId ==
    /\ cmd = "fetch" /\ ~call.done
    /\ call' = [call EXCEPT !.done = TRUE, !.fn = "get_latest_id",
                            !.out = GetLatestId(call.script, latest)]
    /\ UNCHANGED <<items, durable, upstream, latest, clock, cmd, args, pc, todo,
                   ticker, cursor, missed_loops, exits, items0, ids, fetched,
                   newIds, consumed, commits, pending, ctrlc, probe, run1, obs,
                   yielded, jobs, raised>>

(* --------------------------- specifications ---------------------------- *)

NoArgs == [lower |-> 1, upper |-> NULL, commit_period |-> 1, days |-> 0,
           only_mature |-> FALSE, threads |-> {1}]

\* What a run starts from when init_db() has opened one of the archives
\* `tables` against one of the feeds `feeds`.
InitRunFrom(tables, feeds) ==
    /\ items \in tables
    /\ durable = items
    /\ items0 = items
    /\ upstream \in feeds
    /\ clock = ClockBase
    /\ pc = "start"
    /\ todo = <<>> /\ ids = <<>> /\ fetched = <<>> /\ newIds = {}
    /\ ticker = 0 /\ consumed = 0 /\ commits = 0 /\ pending = 0
    /\ cursor = 0 /\ missed_loops = 0 /\ probe = NULL /\ ctrlc = FALSE
    /\ exits = <<>>
    /\ run1 = NoRun
    /\ obs = NoObs
    /\ yielded = <<>> /\ jobs = <<>> /\ raised = NULL
    /\ call = NoCall

\* What every run starts from.
InitRun == InitRunFrom(Tables, Feeds)

Periods == 1 .. MaxK

InitGet ==
    /\ InitRun
    /\ cmd = "get"
    /\ latest = 0
    /\ args \in {[NoArgs EXCEPT !.lower = a, !.upper = b, !.commit_period = k] :
                    a \in Ids, b \in {NULL} \cup {{u} : u \in 0 .. MaxId}, k \in Periods}

InitUpdate ==
    /\ InitRun
    /\ cmd = "update"
    /\ latest = 0
    /\ args \in {[NoArgs EXCEPT !.commit_period = k] : k \in Periods}

InitUpdateItems ==
    /\ InitRun
    /\ cmd = "update_items"
    /\ latest = 0
    /\ args \in {[NoArgs EXCEPT !.days = d, !.only_mature = m, !.commit_period = k] :
                    d \in {0, 14}, m \in BOOLEAN, k \in Periods}

InitTail ==
    /\ InitRun
    /\ cmd = "livestream"
    /\ latest = DeadMargin + 1
    /\ args \in {[NoArgs EXCEPT !.commit_period = k] : k \in Periods}

Init == InitGet \/ InitUpdate \/ InitUpdateItems \/ InitTail

Next ==
    \/ GetStart
    \/ UpdateLoop
    \/ UpdateItemsStart
    \/ CrawlStep
    \/ CrawlEnd
    \/ TailStart
    \/ TailAbsent
    \/ TailPresent
    \/ TailWake
    \/ Interrupt
    \/ Rerun

Spec == Init /\ [][Next]_vars

\* update on its own, left to run: no KeyboardInterrupt, and the loop is
\* not starved (a running Python process keeps executing its next statement).
NextUpdate ==
    \/ UpdateLoop
    \/ CrawlStep
    \/ CrawlEnd

FairUpdate == InitUpdate /\ [][NextUpdate]_vars /\ WF_vars(NextUpdate)

\* The feed publishes: from now on the maxitem endpoint answers no less
\* than l.
Publish ==
    /\ cmd = "livestream"
    /\ \E l \in MaxItemAnswers : l > latest /\ latest' = l
    /\ UNCHANGED <<items, durable, upstream, clock, cmd, args, pc, todo, ticker,
                   cursor, missed_loops, exits, items0, ids, fetched, newIds,
                   consumed, commits, pending, ctrlc, probe, run1, obs, yielded,
                   jobs, raised, call>>

\* livestream on its own, left to run while the feed publishes: no
\* KeyboardInterrupt, no fetch raises, and the loop is not starved (the
\* process keeps executing its next statement and time.sleep returns).
\* Nothing obliges the feed to publish.
NextTail ==
    \/ TailStart
    \/ TailAbsent
    \/ TailPresent
    \/ TailWake

NextFairTail == NextTail \/ Publish

\* The tailer with the commit period that commits every item.
InitFairTail ==
    /\ InitRun
    /\ cmd = "livestream"
    /\ latest = DeadMargin + 1
    /\ args = NoArgs

FairTail == InitFairTail /\ [][NextFairTail]_vars /\ WF_vars(NextTail)

\* insert_item on its own, on a row that does not exist yet.
InitStore ==
    /\ items = EmptyTable
    /\ durable = items
    /\ items0 = items
    /\ upstream = [i \in Ids |-> NULL]
    /\ latest = 0
    /\ clock = ClockBase
    /\ cmd = "upsert"
    /\ args = NoArgs
    /\ pc = "start"
    /\ todo = <<>> /\ ids = <<>> /\ fetched = <<>> /\ newIds = {}
    /\ ticker = 0 /\ consumed = 0 /\ commits = 0 /\ pending = 0
    /\ cursor = 0 /\ missed_loops = 0 /\ probe = NULL /\ ctrlc = FALSE
    /\ exits = <<>>
    /\ run1 = NoRun
    /\ obs = NoObs
    /\ yielded = <<>> /\ jobs = <<>> /\ raised = NULL
    /\ call = NoCall

NextStore == Upsert

SpecStore == InitStore /\ [][NextStore]_vars

\* The commands against a feed that has withdrawn items: an id answers
\* null, or a body flagged deleted and dead.
GoneAnswers(id) == {NULL, {Body(id, 2, {"deleted", "dead"}, 1)}}

GoneFeeds == {f \in [Ids -> UNION {GoneAnswers(i) : i \in Ids}] :
                 \A i \in Ids : f[i] \in GoneAnswers(i)}

InitGone ==
    /\ InitRunFrom(Tables, GoneFeeds)
    /\ cmd \in {"get", "update", "update_items", "livestream"}
    /\ latest = (IF cmd = "livestream" THEN DeadMargin + 1 ELSE 0)
    /\ args \in {[NoArgs EXCEPT !.days = 14, !.commit_period = k] : k \in Periods}

SpecGone == InitGone /\ [][Next]_vars

\* get_item and get_latest_id on their own, against every network script
\* and every answer of the item endpoint.
InitGetCall ==
    /\ items = EmptyTable
    /\ durable = items
    /\ items0 = items
    /\ upstream \in {[i \in Ids |-> IF i = 1 THEN a ELSE NULL] : a \in Answers(1)}
    /\ latest = MaxId
    /\ clock = ClockBase
    /\ cmd = "fetch"
    /\ args = NoArgs
    /\ pc = "start"
    /\ todo = <<>> /\ ids = <<>> /\ fetched = <<>> /\ newIds = {}
    /\ ticker = 0 /\ consumed = 0 /\ commits = 0 /\ pending = 0
    /\ cursor = 0 /\ missed_loops = 0 /\ probe = NULL /\ ctrlc = FALSE
    /\ exits = <<>>
    /\ run1 = NoRun
    /\ obs = NoObs
    /\ yielded = <<>> /\ jobs = <<>> /\ raised = NULL
    /\ call \in {[done |-> FALSE, fn |-> "", script |-> s, out |-> NULL] : s \in Scripts}

NextGetCall == CallGetItem \/ CallGetLatestId

SpecGetCall == InitGetCall /\ [][NextGetCall]_vars

\* The commands with --threads, against a network whose fetches may raise.
MaxThreads == 2

ThreadArgs == {NULL} \cup {{t} : t \in 0 .. MaxThreads}

InitNet ==
    /\ InitRunFrom(Tables, Feeds)
    /\ cmd \in {"get", "update", "update_items", "livestream"}
    /\ latest = (IF cmd = "livestream" THEN DeadMargin + 1 ELSE 0)
    /\ args \in {[NoArgs EXCEPT !.days = 14, !.commit_period = k, !.threads = t] :
                    k \in Periods,
                    t \in IF cmd = "livestream" THEN {{1}} ELSE ThreadArgs}

NextNet ==
    \/ GetStart
    \/ UpdateLoop
    \/ UpdateItemsStart
    \/ CrawlStep
    \/ CrawlEnd
    \/ TailStart
    \/ TailAbsent
    \/ TailPresent
    \/ TailWake
    \/ FetchRaise
    \/ ProbeRaise
    \/ JobStart
    \/ JobFinish
    \/ PoolYield

SpecNet == InitNet /\ [][NextNet]_vars

(* ------------------------------ properties ----------------------------- *)

\* The highest id of the table the run (or the catch-up iteration) started
\* from; 0 when it held no row.
MaxStored0 == IF Stored(items0) = {} THEN 0 ELSE Max(Stored(items0))

Elems(seq) == {seq[i] : i \in 1 .. Len(seq)}

Present(i) == get_item(Fetch(i)) # NULL

\* C1, as claimed: the first id the tailer fetches is one past the highest
\* stored id, or 1 for an empty store, and is never an id that has a row.
C1_TailStartsPastStore ==
    (cmd = "livestream" /\ fetched # <<>>) =>
        /\ fetched[1] = MaxStored0 + 1
        /\ fetched[1] \notin Stored(items0)

\* C1, amended: the first id the tailer fetches is the highest stored id
\* itself (an id that has a row), or 1 for an empty store.
C1_TailStartsAtStoreMax ==
    (cmd = "livestream" /\ fetched # <<>>) =>
        fetched[1] = (IF Stored(items0) = {} THEN 1 ELSE MaxStored0)

\* The store is not empty and the tailer's first fetch is of an id that has a row.
C1_Witness ==
    /\ cmd = "livestream" /\ fetched # <<>>
    /\ Stored(items0) # {}
    /\ fetched[1] \in Stored(items0)

\* C2, as claimed: catch-up, left to run against a feed whose latest id has
\* stopped growing, eventually returns 0.
C2_UpdateTerminates == <>(pc = "exit" /\ exits = <<0>>)

C4_TimeIsFirstFetch ==
    (cmd = "upsert" /\ obs.n >= 1) =>
        \A row \in items[1] : obs.first = {row.time}

\* C4, amended: the stored time is the time carried by the latest upsert.
C4_TimeIsLastFetch ==
    (cmd = "upsert" /\ obs.n >= 1) =>
        \A row \in items[1], d \in obs.data : row.time = d.time

\* A second upsert has left a time other than that of the first.
C4_Witness ==
    /\ cmd = "upsert" /\ obs.n >= 2
    /\ \E row \in items[1] : row.time \notin obs.first

\* C5: a pass of the tailer over an absent id counts one more miss, probes
\* the latest id exactly when the count is a multiple of 5, moves the cursor
\* on by one without sleeping exactly when that probe answered more than
\* cursor+50, and in every other case keeps the cursor and sleeps; the sleep
\* ends in a fetch of the same cursor; nothing is upserted.
C5_DeadIdRule ==
    [][ /\ (cmd = "livestream" /\ pc = "tail" /\ pc' # "exit" /\ ~Present(cursor)) =>
            /\ missed_loops' = missed_loops + 1
            /\ (probe' # NULL) <=> (missed_loops' % 5 = 0)
            /\ (cursor' = cursor + 1 /\ pc' = "tail")
                   <=> (\E l \in probe' : l > cursor + 50)
            /\ (~ \E l \in probe' : l > cursor + 50)
                   => (cursor' = cursor /\ pc' = "sleep")
            /\ items' = items
        /\ (pc = "sleep" /\ pc' # "exit") => (pc' = "tail" /\ cursor' = cursor)
      ]_vars

\* The fifth miss probed, the feed was exactly 50 ahead, the tailer sleeps.
C5_Witness ==
    /\ cmd = "livestream" /\ pc = "sleep"
    /\ probe = {cursor + 50}
    /\ missed_loops = 5

\* C6: once KeyboardInterrupt was raised in a command, the command has
\* returned 1 and every row upserted so far is committed.
C6_CancelCommits ==
    ctrlc => /\ pc = "exit"
             /\ Last(exits) = 1
             /\ durable = items
             /\ pending = 0

\* The handler has committed rows upserted after the last periodic commit.
C6_Witness ==
    /\ ctrlc /\ pc = "exit"
    /\ ticker # 0
    /\ durable = items
    /\ durable # items0

C8_CrawlStaysInRange ==
    (cmd = "get" /\ args.upper # NULL) =>
        LET a == args.lower
            b == CHOOSE u \in args.upper : TRUE
        IN  /\ \A i \in Elems(fetched) : a <= i /\ i <= b
            /\ \A i \in Stored(items) \ Stored(items0) : a <= i /\ i <= b
            /\ (pc = "exit" /\ ~ctrlc) =>
                  \A i \in (a .. b) \ Stored(items0) :
                      (i \in Stored(items)) <=> Present(i)

\* Two rows (or their absence) that differ at most in `retrieved`.
SameButRetrieved(x, y) ==
    /\ (x = NULL) <=> (y = NULL)
    /\ \A r \in x, q \in y : [r EXCEPT !.retrieved = 0] = [q EXCEPT !.retrieved = 0]

\* C9: in the first run of a crawl the upsert of an id reports is_new exactly
\* if the id had no row; in a second run of the same crawl over the same
\* feed no upsert reports is_new and no column but `retrieved` changes.
C9_RerunIdempotent ==
    /\ (cmd \in {"get", "update_items"} /\ exits \in {<<>>, <<0>>, <<1>>} /\ run1 = NoRun) =>
           newIds = {i \in Elems(fetched) : Present(i)} \ Stored(items0)
    /\ (cmd \in {"get", "update_items"} /\ run1.done /\ (pc = "start" \/ ids = run1.ids)) =>
           /\ newIds = {}
           /\ \A i \in Ids : SameButRetrieved(items[i], run1.table[i])

\* Both runs returned 0; the first created rows, the second touched `retrieved`.
C9_Witness ==
    /\ cmd = "get" /\ run1.done /\ pc = "exit" /\ exits = <<0, 0>>
    /\ ids = run1.ids
    /\ run1.new # {}
    /\ items # run1.table

\* C10: an upsert over an existing row leaves in each of author, text, poll,
\* url, score and title the incoming value if the body has the key, and the
\* value stored before if it has not.
C10_RetainedFields ==
    (cmd = "upsert" /\ obs.prev # NULL) =>
        \A row \in items[1], old \in obs.prev, d \in obs.data :
            /\ row.author = (IF "by" \in DOMAIN d THEN {d.by} ELSE old.author)
            /\ row.text = (IF "text" \in DOMAIN d THEN {d.text} ELSE old.text)
            /\ row.url = (IF "url" \in DOMAIN d THEN {d.url} ELSE old.url)
            /\ row.title = (IF "title" \in DOMAIN d THEN {d.title} ELSE old.title)
            /\ row.score = (IF "score" \in DOMAIN d THEN {d.score} ELSE old.score)
            /\ row.poll = (IF "poll" \in DOMAIN d
                           THEN (IF d.poll = 7 THEN {"7"} ELSE {"12"})
                           ELSE old.poll)

\* Score 10 has survived an upsert whose body has no score key.
C10_Witness ==
    /\ cmd = "upsert" /\ obs.n = 2
    /\ \E row \in items[1], old \in obs.prev, d \in obs.data :
          /\ "score" \notin DOMAIN d
          /\ old.score = {10}
          /\ row.score = {10}
          /\ d.time = old.time

\* C11: an upsert whose body has no descendants key leaves the descendants
\* column NULL, on a new row and on an existing one, whatever it held.
C11_DescendantsCleared ==
    (cmd = "upsert" /\ obs.n >= 1) =>
        \A row \in items[1], d \in obs.data :
            "descendants" \notin DOMAIN d => row.descendants = NULL

\* Descendants 7 was stored and an upsert without the key has cleared it.
C11_Witness ==
    /\ cmd = "upsert" /\ obs.n = 2
    /\ \E row \in items[1], old \in obs.prev, d \in obs.data :
          /\ "descendants" \notin DOMAIN d
          /\ old.descendants = {7}
          /\ row.descendants = NULL

\* C13: every upsert, on a new row or an existing one, leaves `retrieved`
\* equal to the clock value read in that call, and since the clock does not
\* go back no upsert lowers the `retrieved` of a row.
C13_RetrievedIsClock ==
    [][ cmd = "upsert" =>
            /\ \A q \in items'[1] : q.retrieved = clock'
            /\ \A r \in items[1], q \in items'[1] : r.retrieved <= q.retrieved
      ]_vars

\* An upsert of the very same body a second later has changed `retrieved`
\* and nothing else.
C13_Witness ==
    /\ cmd = "upsert" /\ obs.n = 2
    /\ SameButRetrieved(items[1], obs.prev)
    /\ \E row \in items[1], old \in obs.prev :
          /\ old.retrieved = ClockBase
          /\ row.retrieved = ClockBase + 1

\* C17, as claimed: the staleness refresh selects exactly the stored ids whose
\* `retrieved - time` is strictly below days x 86400 and, with only-mature,
\* whose `time` is more than 14 days before the present; an id whose
\* `retrieved - time` equals the threshold is not selected.
C17_SelectsStrictlyBelow ==
    (/\ cmd = "update_items" /\ ~ctrlc
     /\ (pc = "crawl" /\ fetched = <<>>) \/ (pc = "exit" /\ ids = <<>>)) =>
        Elems(ids) = {i \in Stored(items) :
                         \A row \in items[i] :
                             /\ row.retrieved - row.time < args.days * 86400
                             /\ args.only_mature => row.time < clock - 14 * 86400}

\* C12: no step of a crawl, catch-up, refresh or tail removes a row, from the
\* table or from what is committed, also when the fetched item is absent or
\* flagged deleted and dead; a pass over an absent id leaves every row as it was.
C12_RowsStay ==
    [][ /\ Stored(items) \subseteq Stored(items')
        /\ Stored(durable) \subseteq Stored(durable')
        /\ (pc = "crawl" /\ todo # <<>> /\ ~Present(Head(todo))) => items' = items
        /\ (pc = "tail" /\ ~Present(cursor)) => items' = items
      ]_vars

\* A row of an earlier run was fetched again as deleted and dead and is
\* still there, flagged; another one, whose fetch was absent, is as it was.
C12_Witness ==
    /\ pc = "exit" /\ exits = <<0>> /\ Len(fetched) = 2
    /\ \E i \in Stored(items0) :
          /\ Present(i) /\ i \in Elems(fetched)
          /\ \E row \in items[i] : row.deleted = 1 /\ row.dead = 1 /\ row.type = "comment"
    /\ \E j \in Stored(items0) :
          /\ ~Present(j) /\ j \in Elems(fetched)
          /\ items[j] = items0[j]

\* The caught failures among the first n attempts of a script.
CaughtIn(script, n) == Cardinality({j \in 1 .. n : script[j] = "caught"})

\* The attempt that decides a call with budget R: the first one that is not
\* a caught failure, if one of the first R is; 0 if all R are caught.
Deciding(script, R) ==
    IF \A j \in 1 .. R : script[j] = "caught" THEN 0
    ELSE CHOOSE j \in 1 .. R :
             script[j] # "caught" /\ \A i \in 1 .. (j - 1) : script[i] = "caught"

\* C16: a fetch with budget R (8 for get_item, 1 for get_latest_id) makes at
\* most R attempts; every caught failure takes exactly one unit of the
\* budget; it returns the response of the first successful attempt, and it
\* raises the out-of-retries failure (it does not return None) exactly when
\* R attempts in a row failed in the caught way.
C16_RetryBudget ==
    (cmd = "fetch" /\ call.done) =>
        LET R == IF call.fn = "get_item" THEN 8 ELSE 1
            s == call.script
            o == call.out.net
            d == Deciding(s, R)
        IN  /\ o.attempts <= R
            /\ o.retries = R - CaughtIn(s, o.attempts)
            /\ (d # 0 /\ s[d] = "ok") => (o.raised = NULL /\ o.response = {d})
            /\ o.raised = NULL => (d # 0 /\ s[d] = "ok")
            /\ (o.raised = {"RuntimeError"}) <=> (d = 0)
            /\ d = 0 => (o.attempts = R /\ o.retries = 0 /\ call.out.value = NULL)

\* get_item gave up after eight caught failures.
C16_Witness ==
    /\ cmd = "fetch" /\ call.done /\ call.fn = "get_item"
    /\ call.out.net.raised = {"RuntimeError"}
    /\ call.out.net.attempts = 8
    /\ call.out.net.retries = 0

\* C18: when the response of get_item is a null body or a body without
\* "time", get_item returns None and the attempt that brought the response
\* was the last one: nothing is tried again and nothing is slept after it
\* (one attempt and no sleep at all when the first attempt answers); when an
\* attempt raises an error that is not caught, get raises on that attempt,
\* with the budget and the sleeps as the caught failures before it left them.
C18_NoRetryNoSleep ==
    (cmd = "fetch" /\ call.done) =>
        LET R == IF call.fn = "get_item" THEN 8 ELSE 1
            s == call.script
            o == call.out.net
            d == Deciding(s, R)
        IN  /\ (call.fn = "get_item" /\ d # 0 /\ s[d] = "ok" /\ get_item(Fetch(1)) = NULL) =>
                   /\ o.raised = NULL /\ call.out.value = NULL
                   /\ o.attempts = d /\ o.sleeps = d - 1
                   /\ o.retries = R - (d - 1)
            /\ (d # 0 /\ s[d] = "other") =>
                   /\ o.raised = {"HTTPError"}
                   /\ o.attempts = d /\ o.sleeps = d - 1
                   /\ o.retries = R - (d - 1)
            /\ o.raised = {"HTTPError"} => (d # 0 /\ s[d] = "other")

\* A body without "time" on the first attempt: None, one attempt, no sleep.
C18_Witness ==
    /\ cmd = "fetch" /\ call.done /\ call.fn = "get_item"
    /\ call.script[1] = "ok"
    /\ upstream[1] = {Stub(1)}
    /\ call.out.value = NULL /\ call.out.net.raised = NULL
    /\ call.out.net.attempts = 1 /\ call.out.net.sleeps = 0

\* The items of the present ids of a sequence, in its order.
ItemsOf(seq) ==
    LET there == SelectSeq(seq, Present)
    IN  [i \in 1 .. Len(there) |-> CHOOSE d \in get_item(Fetch(there[i])) : TRUE]

\* The command's insert_items has returned.
Returned == (pc = "exit" /\ exits = <<0>>) \/ pc = "loop"

\* C14: with no failing fetch, get_items with threads <= 1 (or none) yields
\* the items of the present ids in the order of the ids, and get_items with
\* threads > 1 has yielded, once its stream is exhausted, the same items,
\* each exactly once and no absent one, in whatever order.
C14_PoolEquivalence ==
    (/\ cmd \in {"get", "update", "update_items"}
     /\ raised = NULL /\ \A i \in DOMAIN jobs : jobs[i].exception = NULL) =>
        LET single == ~(\E t \in args.threads : t > 1)
        IN  /\ (single /\ pc \in {"crawl", "loop", "exit"}) =>
                   yielded = ItemsOf(fetched)
            /\ (single /\ Returned) => yielded = ItemsOf(ids)
            /\ (~single /\ pc \in {"crawl", "loop", "exit"}) =>
                   /\ Elems(yielded) \subseteq Elems(ItemsOf(ids))
                   /\ Cardinality(Elems(yielded)) = Len(yielded)
            /\ (~single /\ Returned) =>
                   /\ Elems(yielded) = Elems(ItemsOf(ids))
                   /\ Len(yielded) = Len(ItemsOf(ids))

\* Two threads, two ids, one of them absent: one item came out.
C14_Witness ==
    /\ cmd = "get" /\ pc = "exit" /\ exits = <<0>>
    /\ args.threads = {2}
    /\ Len(ids) = 2 /\ Len(jobs) = 2
    /\ Len(yielded) = 1

\* C15: when a fetch raises (out of retries, or an error that is not
\* retried), in get_items_singlethreaded, in a job of the pool or in
\* livestream, the step that brings the exception to insert_items upserts
\* nothing and ends the command without a return value, nothing is upserted
\* afterwards, and no command returns having passed over a job that raised.
C15_FailureAborts ==
    [][ /\ raised' # NULL =>
               /\ items' = items /\ yielded' = yielded /\ consumed' = consumed
               /\ pc' = "exit" /\ exits' = <<>>
        /\ \A i \in DOMAIN jobs' :
               (jobs'[i].state = "taken" /\ jobs'[i].exception # NULL) => raised' # NULL
        /\ (pc' = "loop" \/ exits' # <<>>) =>
               (raised' = NULL /\ \A i \in DOMAIN jobs' : jobs'[i].exception = NULL)
      ]_vars

\* A job of the pool raised while another had an item ready: the command
\* has ended and that item was never upserted.
C15_Witness ==
    /\ raised # NULL /\ pc = "exit"
    /\ args.threads = {2}
    /\ \E i \in DOMAIN jobs :
          /\ jobs[i].state = "done" /\ jobs[i].value # NULL
          /\ jobs[i].id \notin Stored(items)

\* C20: the step in which a fetch or the latest-id probe raises (not a
\* KeyboardInterrupt) commits nothing: what is committed, the number of
\* commits and the rows upserted since the last commit, fewer than K, stay
\* as they were, the handler of ctrlc_commit has not run, and nothing
\* happens after it.
C20_NoCommitOnFailure ==
    [][ /\ raised' # NULL =>
               /\ durable' = durable
               /\ commits' = commits
               /\ pending' = pending /\ pending' < args.commit_period
               /\ ~ctrlc' /\ exits' = <<>> /\ pc' = "exit"
        /\ raised # NULL => UNCHANGED vars
      ]_vars

\* With K = 2 a row was upserted, then a fetch raised: the row is in the
\* table of the connection and not in what is committed.
C20_Witness ==
    /\ raised # NULL /\ pc = "exit"
    /\ args.commit_period = 2
    /\ pending = 1
    /\ Stored(items) # Stored(durable)

\* The ids of a sequence of items are strictly increasing.
IdsIncrease(seq) == \A i, j \in 1 .. Len(seq) : i < j => seq[i].id < seq[j].id

\* C22: in a run of the tailer the cursor stays or moves on by one; it
\* moves on exactly when the item at the cursor is emitted or the id is
\* skipped by the dead-id rule (absent, a multiple of 5 misses, the probe
\* above cursor+50); the emitted ids are strictly increasing; and the ids
\* examined so far are those from the first cursor to the current one, each
\* of them below the cursor emitted or absent.
C22_MonotoneTail ==
    [][ (cmd = "livestream" /\ pc \in {"tail", "sleep"}) =>
            LET emits == /\ Present(cursor)
                         /\ yielded' = Append(yielded, CHOOSE d \in get_item(Fetch(cursor)) : TRUE)
                skips == /\ ~Present(cursor)
                         /\ yielded' = yielded
                         /\ missed_loops' = missed_loops + 1
                         /\ missed_loops' % 5 = 0
                         /\ \E l \in probe' : l > cursor + 50
            IN  /\ cursor' = cursor \/ cursor' = cursor + 1
                /\ (cursor' = cursor + 1) <=> (emits \/ skips)
                /\ cursor' = cursor => yielded' = yielded
                /\ IdsIncrease(yielded')
                /\ fetched' # <<>> =>
                       /\ Elems(fetched') \subseteq fetched'[1] .. cursor'
                       /\ \A i \in fetched'[1] .. (cursor' - 1) :
                              /\ i \in Elems(fetched')
                              /\ Present(i) <=> (\E k \in 1 .. Len(yielded') : yielded'[k].id = i)
      ]_vars

\* The tailer has emitted two items and gone past an id that was absent.
C22_Witness ==
    /\ cmd = "livestream" /\ pc = "tail"
    /\ Len(fetched) >= 3
    /\ Len(yielded) = 2
    /\ \E i \in Elems(fetched) : i < cursor /\ ~Present(i)

\* The step is one of the tailer, not one of the feed alone.
TailerMoved ==
    <<pc, cursor, missed_loops, fetched, yielded, probe>>' #
        <<pc, cursor, missed_loops, fetched, yielded, probe>>

\* C21: once the feed's latest id is above cursor+50 (it does not go back)
\* and the id at the cursor is absent, the tailer, left to run, moves the
\* cursor past that id (within the misses the model follows); the skip counts
\* its miss like any other and does not reset missed_loops, a probe is made
\* only on a miss that brings the count to a multiple of 5, and only an
\* emitted item sets the count back to 0: the probe after a skip comes with
\* the fifth absence in a row after it.
C21_SkipsDeadId ==
    /\ \A c \in Ids :
           (/\ pc \in {"tail", "sleep"} /\ cursor = c /\ ~Present(c)
            /\ latest > c + 50
            /\ missed_loops + 5 <= MaxMissed) ~> (cursor > c)
    /\ [][ (pc = "tail" /\ ~Present(cursor) /\ TailerMoved) =>
               /\ missed_loops' = missed_loops + 1
               /\ probe' # NULL <=> missed_loops' % 5 = 0
               /\ cursor' # cursor => (missed_loops' # 0 /\ missed_loops' % 5 = 0)
          ]_vars
    /\ [][ missed_loops' < missed_loops =>
               (pc = "tail" /\ Present(cursor) /\ missed_loops' = 0) ]_vars

\* Id 1 was skipped on the fifth miss, and the next probe came on the
\* tenth, after five absences of id 2.
C21_Witness ==
    /\ cmd = "livestream" /\ yielded = <<>>
    /\ fetched = <<1, 2>>
    /\ missed_loops = 10
    /\ probe # NULL

====
